---- MODULE Spec2Model ----
(***************************************************************************)
(* Model of the jsHue bridge client (jsHueAPI in src/index.bundle.js):     *)
(* URL composition, the fetch/JSON transport primitive, the bound request  *)
(* functions, the bridge/user object graph and the promise each call       *)
(* returns.                                                                *)
(***************************************************************************)
EXTENDS Integers, Sequences, FiniteSets, TLC

(***************************************************************************)
(* JavaScript values.  Every value is a record of the same shape so that   *)
(* values of different JavaScript types can be compared.                   *)
(*   t : "undefined" | "null" | "bool" | "num" | "str" | "obj"             *)
(*   f : for an object, its own properties in insertion order, each a      *)
(*       record [k |-> name, v |-> primitive value]                        *)
(***************************************************************************)
Undefined == [t |-> "undefined", b |-> FALSE, n |-> 0, s |-> "", f |-> <<>>]

Null == [t |-> "null", b |-> FALSE, n |-> 0, s |-> "", f |-> <<>>]

Bool(x) == [t |-> "bool", b |-> x, n |-> 0, s |-> "", f |-> <<>>]

Num(x) == [t |-> "num", b |-> FALSE, n |-> x, s |-> "", f |-> <<>>]

Str(x) == [t |-> "str", b |-> FALSE, n |-> 0, s |-> x, f |-> <<>>]

Obj(x) == [t |-> "obj", b |-> FALSE, n |-> 0, s |-> "", f |-> x]

Prop(name, val) == [k |-> name, v |-> val]

\* An argument list read at a position the caller did not fill is undefined.
Arg(args, i) == IF i <= Len(args) THEN args[i] ELSE Undefined

\* Array.prototype.slice.call(arguments, i): the arguments from position i+1 on.
Rest(args, i) == SubSeq(args, i + 1, Len(args))

Digit(d) ==
  CASE d = 0 -> "0" [] d = 1 -> "1" [] d = 2 -> "2" [] d = 3 -> "3"
    [] d = 4 -> "4" [] d = 5 -> "5" [] d = 6 -> "6" [] d = 7 -> "7"
    [] d = 8 -> "8" [] OTHER -> "9"

RECURSIVE NumToStr(_)
NumToStr(n) == IF n < 10 THEN Digit(n) ELSE NumToStr(n \div 10) \o Digit(n % 10)

\* String(v), as a template literal or String.prototype conversion applies it.
ToStringJs(v) ==
  CASE v.t = "undefined" -> "undefined"
    [] v.t = "null" -> "null"
    [] v.t = "bool" -> (IF v.b THEN "true" ELSE "false")
    [] v.t = "num" -> NumToStr(v.n)
    [] v.t = "str" -> v.s
    [] OTHER -> "[object Object]"

\* The text Array.prototype.join gives one element: null and undefined
\* become the empty string, any other element its String conversion.
JoinItem(v) == IF v.t \in {"undefined", "null"} THEN "" ELSE ToStringJs(v)

RECURSIVE Join(_, _)
Join(parts, sep) ==
  IF Len(parts) = 0 THEN ""
  ELSE IF Len(parts) = 1 THEN JoinItem(parts[1])
  ELSE Join(SubSeq(parts, 1, Len(parts) - 1), sep) \o sep \o JoinItem(parts[Len(parts)])

\* JSON text of a primitive value that is not undefined.
PrimText(v) ==
  CASE v.t = "null" -> "null"
    [] v.t = "bool" -> (IF v.b THEN "true" ELSE "false")
    [] v.t = "num" -> NumToStr(v.n)
    [] OTHER -> "\"" \o v.s \o "\""

\* JSON text of an object's members: properties whose value is undefined
\* are left out, the others are written in order, separated by commas.
RECURSIVE Members(_)
Members(f) ==
  IF Len(f) = 0 THEN ""
  ELSE LET head == Members(SubSeq(f, 1, Len(f) - 1))
           last == f[Len(f)]
           text == "\"" \o last.k \o "\":" \o PrimText(last.v)
       IN IF last.v.t = "undefined" THEN head
          ELSE IF head = "" THEN text
          ELSE head \o "," \o text

\* JSON.stringify(v): a JavaScript string, or undefined for undefined.
JSON_stringify(v) ==
  IF v.t = "undefined" THEN Undefined
  ELSE IF v.t = "obj" THEN Str("{" \o Members(v.f) \o "}")
  ELSE Str(PrimText(v))

(***************************************************************************)
(* jsHueAPI: URL composition and the transport primitive.                  *)
(* A function of the source that reads `arguments` or is called through    *)
(* bind/apply takes its whole argument list as one sequence.               *)
(***************************************************************************)

\* Variant: empty parts are left out.
_slash_compact(parts) == Join(SelectSeq(parts, LAMBDA v : JoinItem(v) # ""), "/")

\* _slash(...parts): the parts joined by '/'.
_slash(parts) == Join(parts, "/")

\* fetch(url, {method: method, body: data}): the request handed to the
\* network.  A body of null or undefined is no body.
fetch(url, method, body) ==
  [method |-> ToStringJs(method), url |-> ToStringJs(url), body |-> body]

\* Variant: every data, null included, is stringified.
_requestJson_always(args) ==
  fetch(Arg(args, 2), Arg(args, 1), JSON_stringify(Arg(args, 3)))

\* _requestJson(method, url, data): data is stringified unless it is null;
\* arguments after the third are not read.
_requestJson(args) ==
  LET method == Arg(args, 1)
      url == Arg(args, 2)
      data == Arg(args, 3)
      body == IF data # Null THEN JSON_stringify(data) ELSE data
  IN fetch(url, method, body)

\* Variant: the whole argument list is forwarded.
_requestJsonUrl_forward(args) == _requestJson(args)

\* _requestJsonUrl(method, url): calls _requestJson without data.
_requestJsonUrl(args) == _requestJson(<<Arg(args, 1), Arg(args, 2)>>)

_get(args) == _requestJsonUrl(<<Str("GET")>> \o args)

\* Variant: bound to the wrong method.
_put_post(args) == _requestJson(<<Str("POST")>> \o args)

_put(args) == _requestJson(<<Str("PUT")>> \o args)

\* Variant: bound to the wrong method.
_post_put(args) == _requestJson(<<Str("PUT")>> \o args)

_post(args) == _requestJson(<<Str("POST")>> \o args)

\* Variant: bound to the primitive that takes data.
_delete_data(args) == _requestJson(<<Str("DELETE")>> \o args)

_delete(args) == _requestJsonUrl(<<Str("DELETE")>> \o args)

\* method.apply(null, args) for one of the four bound request functions,
\* which are passed around by name.
apply(method, args) ==
  CASE method = "_get" -> _get(args)
    [] method = "_put" -> _put(args)
    [] method = "_post" -> _post(args)
    [] OTHER -> _delete(args)

\* Variant: the arguments after the first are not passed on.
_parametrize_norest(method, url, args) ==
  apply(method, <<Str(url[Arg(args, 1)])>>)

\* Variant: the URL generator is called without its parameter.
_parametrize_noid(method, url, args) ==
  apply(method, <<Str(url[Undefined])>> \o Rest(args, 1))

\* _parametrize(method, url)(p, ...rest) = method(url(p), ...rest); the URL
\* generator url is a function of its one parameter.
_parametrize(method, url, args) ==
  apply(method, <<Str(url[Arg(args, 1)])>> \o Rest(args, 1))

\* The portal address bound into discover.
NupnpUrl == "https://www.meethue.com/api/nupnp"

\* discover = _get.bind(null, NupnpUrl)
discover(args) == _get(<<Str(NupnpUrl)>> \o args)

(***************************************************************************)
(* The object graph.  A handle is the closure an object of the source was  *)
(* created in: the variables the closure captured, with the values they    *)
(* got when the object was constructed.                                    *)
(***************************************************************************)

\* bridge(ip): the closure of a jsHueBridge object.
bridge(ip) ==
  [kind |-> "bridge", parent |-> 0, ip |-> ip, username |-> Undefined,
   _bridgeUrl |-> "http://" \o ToStringJs(ip) \o "/api",
   _userUrl |-> "", _infoUrl |-> "", _configUrl |-> "", _lightsUrl |-> "",
   _groupsUrl |-> "", _schedulesUrl |-> "", _scenesUrl |-> "",
   _sensorsUrl |-> "", _rulesUrl |-> ""]

\* Variant: a path segment is misspelt.
user_typo(H, b, username) ==
  LET _bridgeUrl == H[b]._bridgeUrl
      _userUrl == _slash(<<Str(_bridgeUrl), username>>)
  IN [kind |-> "user", parent |-> b, ip |-> H[b].ip, username |-> username,
      _bridgeUrl |-> _bridgeUrl,
      _userUrl |-> _userUrl,
      _infoUrl |-> _slash(<<Str(_userUrl), Str("info")>>),
      _configUrl |-> _slash(<<Str(_userUrl), Str("config")>>),
      _lightsUrl |-> _slash(<<Str(_userUrl), Str("lights")>>),
      _groupsUrl |-> _slash(<<Str(_userUrl), Str("group")>>),
      _schedulesUrl |-> _slash(<<Str(_userUrl), Str("schedules")>>),
      _scenesUrl |-> _slash(<<Str(_userUrl), Str("scenes")>>),
      _sensorsUrl |-> _slash(<<Str(_userUrl), Str("sensors")>>),
      _rulesUrl |-> _slash(<<Str(_userUrl), Str("rules")>>)]

\* user(username), called on the bridge object H[b]: the closure of a
\* jsHueUser object, nested in the closure of its bridge.
user(H, b, username) ==
  LET _bridgeUrl == H[b]._bridgeUrl
      _userUrl == _slash(<<Str(_bridgeUrl), username>>)
  IN [kind |-> "user", parent |-> b, ip |-> H[b].ip, username |-> username,
      _bridgeUrl |-> _bridgeUrl,
      _userUrl |-> _userUrl,
      _infoUrl |-> _slash(<<Str(_userUrl), Str("info")>>),
      _configUrl |-> _slash(<<Str(_userUrl), Str("config")>>),
      _lightsUrl |-> _slash(<<Str(_userUrl), Str("lights")>>),
      _groupsUrl |-> _slash(<<Str(_userUrl), Str("groups")>>),
      _schedulesUrl |-> _slash(<<Str(_userUrl), Str("schedules")>>),
      _scenesUrl |-> _slash(<<Str(_userUrl), Str("scenes")>>),
      _sensorsUrl |-> _slash(<<Str(_userUrl), Str("sensors")>>),
      _rulesUrl |-> _slash(<<Str(_userUrl), Str("rules")>>)]

\* The values callers pass where a member takes an identifier; a missing
\* argument is undefined.
Ids == {Undefined, Num(5), Str("scene1"), Str("myapp"), Str("abc123")}

\* Variant: the identifier is not appended.
_objectUrl_noid(baseUrl) == [id \in Ids |-> _slash(<<Str(baseUrl)>>)]

\* _objectUrl(baseUrl): the URL generator id => _slash(baseUrl, id)
_objectUrl(baseUrl) == [id \in Ids |-> _slash(<<Str(baseUrl), id>>)]

\* Variant: a username field is sent along.
createUser_named(c, args) ==
  LET data == Obj(<<Prop("devicetype", Arg(args, 1)),
                    Prop("username", Str("newdeveloper"))>>)
  IN _post(<<Str(c._bridgeUrl), data>>)

\* createUser(type) of the bridge object with closure c.
createUser(c, args) ==
  LET data == Obj(<<Prop("devicetype", Arg(args, 1))>>)
  IN _post(<<Str(c._bridgeUrl), data>>)

BridgeOps == {"createUser"}

UserOps ==
  {"getTimezones", "create", "deleteUser", "getConfig", "setConfig",
   "getFullState",
   "getLights", "getNewLights", "searchForNewLights", "getLight", "setLight",
   "setLightState",
   "getGroups", "createGroup", "getGroup", "setGroup", "setGroupState",
   "deleteGroup",
   "getSchedules", "createSchedule", "getSchedule", "setSchedule",
   "deleteSchedule",
   "getScenes", "setScene", "setSceneLightState",
   "getSensors", "createSensor", "searchForNewSensors", "getNewSensors",
   "getSensor", "setSensor", "setSensorConfig", "setSensorState",
   "deleteSensor",
   "getRules", "createRule", "getRule", "setRule", "deleteRule"}

\* The members of the user object with closure c, applied to an argument list.
userOp(c, op, args) ==
  LET _lightUrl == _objectUrl(c._lightsUrl)
      _groupUrl == _objectUrl(c._groupsUrl)
      _scheduleUrl == _objectUrl(c._schedulesUrl)
      _sceneUrl == _objectUrl(c._scenesUrl)
      _sensorUrl == _objectUrl(c._sensorsUrl)
      _ruleUrl == _objectUrl(c._rulesUrl)
      whitelistUrl ==
        [username \in Ids |->
           _slash(<<Str(c._configUrl), Str("whitelist"), username>>)]
      lightStateUrl ==
        [id \in Ids |-> _slash(<<Str(_lightUrl[id]), Str("state")>>)]
      groupActionUrl ==
        [id \in Ids |-> _slash(<<Str(_groupUrl[id]), Str("action")>>)]
      sensorConfigUrl ==
        [id \in Ids |-> _slash(<<Str(_sensorUrl[id]), Str("config")>>)]
      sensorStateUrl ==
        [id \in Ids |-> _slash(<<Str(_sensorUrl[id]), Str("state")>>)]
  IN CASE op = "getTimezones" ->
            _get(<<Str(_slash(<<Str(c._infoUrl), Str("timezones")>>))>> \o args)
       [] op = "create" ->
            _post(<<Str(c._bridgeUrl),
                    Obj(<<Prop("username", c.username),
                          Prop("devicetype", Arg(args, 1))>>)>>)
       [] op = "deleteUser" -> _parametrize("_delete", whitelistUrl, args)
       [] op = "getConfig" -> _get(<<Str(c._configUrl)>> \o args)
       [] op = "setConfig" -> _put(<<Str(c._configUrl)>> \o args)
       [] op = "getFullState" -> _get(<<Str(c._userUrl)>> \o args)
       [] op = "getLights" -> _get(<<Str(c._lightsUrl)>> \o args)
       [] op = "getNewLights" ->
            _get(<<Str(_slash(<<Str(c._lightsUrl), Str("new")>>))>> \o args)
       [] op = "searchForNewLights" ->
            _post(<<Str(c._lightsUrl), Null>> \o args)
       [] op = "getLight" -> _parametrize("_get", _lightUrl, args)
       [] op = "setLight" -> _parametrize("_put", _lightUrl, args)
       [] op = "setLightState" -> _parametrize("_put", lightStateUrl, args)
       [] op = "getGroups" -> _get(<<Str(c._groupsUrl)>> \o args)
       [] op = "createGroup" -> _post(<<Str(c._groupsUrl)>> \o args)
       [] op = "getGroup" -> _parametrize("_get", _groupUrl, args)
       [] op = "setGroup" -> _parametrize("_put", _groupUrl, args)
       [] op = "setGroupState" -> _parametrize("_put", groupActionUrl, args)
       [] op = "deleteGroup" -> _parametrize("_delete", _groupUrl, args)
       [] op = "getSchedules" -> _get(<<Str(c._schedulesUrl)>> \o args)
       [] op = "createSchedule" -> _post(<<Str(c._schedulesUrl)>> \o args)
       [] op = "getSchedule" -> _parametrize("_get", _scheduleUrl, args)
       [] op = "setSchedule" -> _parametrize("_put", _scheduleUrl, args)
       [] op = "deleteSchedule" -> _parametrize("_delete", _scheduleUrl, args)
       [] op = "getScenes" -> _get(<<Str(c._scenesUrl)>> \o args)
       [] op = "setScene" -> _parametrize("_put", _sceneUrl, args)
       [] op = "setSceneLightState" ->
            _put(<<Str(_slash(<<Str(_sceneUrl[Arg(args, 1)]), Str("lights"),
                                Arg(args, 2), Str("state")>>)),
                   Arg(args, 3), Arg(args, 4), Arg(args, 5)>>)
       [] op = "getSensors" -> _get(<<Str(c._sensorsUrl)>> \o args)
       [] op = "createSensor" -> _post(<<Str(c._sensorsUrl)>> \o args)
       [] op = "searchForNewSensors" ->
            _post(<<Str(c._sensorsUrl), Null>> \o args)
       [] op = "getNewSensors" ->
            _get(<<Str(_slash(<<Str(c._sensorsUrl), Str("new")>>))>> \o args)
       [] op = "getSensor" -> _parametrize("_get", _sensorUrl, args)
       [] op = "setSensor" -> _parametrize("_put", _sensorUrl, args)
       [] op = "setSensorConfig" -> _parametrize("_put", sensorConfigUrl, args)
       [] op = "setSensorState" -> _parametrize("_put", sensorStateUrl, args)
       [] op = "deleteSensor" -> _parametrize("_delete", _sensorUrl, args)
       [] op = "getRules" -> _get(<<Str(c._rulesUrl)>> \o args)
       [] op = "createRule" -> _post(<<Str(c._rulesUrl)>> \o args)
       [] op = "getRule" -> _parametrize("_get", _ruleUrl, args)
       [] op = "setRule" -> _parametrize("_put", _ruleUrl, args)
       [] OTHER -> _parametrize("_delete", _ruleUrl, args)

(***************************************************************************)
(* The environment: callers' inputs and the bridge's answers.              *)
(***************************************************************************)

\* At most this many bridge and user objects are constructed.
MaxHandles == 2

Addresses == {Str("10.0.0.5"), Str("hue.local")}

Usernames == {Str("abc123"), Str("lampe-bash")}

StateOn == Obj(<<Prop("on", Bool(TRUE))>>)

StateBri == Obj(<<Prop("bri", Num(120))>>)

\* The argument lists callers pass: none, (id, data), (sceneId, lightId,
\* data) with and without trailing arguments, and a single string.
ArgLists ==
  {<<>>,
   <<Num(5), StateOn>>,
   <<Str("scene1"), Num(5), StateBri>>,
   <<Str("scene1"), Num(5), StateBri, Str("success"), Str("callback")>>,
   <<Str("myapp")>>}

\* The triples the transport primitive is applied to.
Methods == {"GET", "PUT", "POST", "DELETE"}

Urls == {"http://10.0.0.5/api", "http://hue.local/api/abc123/lights/5/state"}

DataValues ==
  {Undefined, Null, Bool(FALSE), Num(0), Num(120), Str("myapp"), Obj(<<>>),
   StateOn, StateBri,
   Obj(<<Prop("devicetype", Str("myapp")), Prop("username", Undefined)>>)}

\* What the bridge answers: any status with a JSON object, with a JSON
\* error payload, or with a body that is not JSON.
Statuses == {200, 403}

ErrorPayload == Obj(<<Prop("error", Str("unauthorized user"))>>)

Texts == {"{\"on\":true}", "{\"error\":\"unauthorized user\"}", "<html>"}

\* The JSON values whose text the model can read back.
JsonDomain ==
  {v \in DataValues :
     v.t # "undefined" /\ \A i \in DOMAIN v.f : v.f[i].v.t # "undefined"}
    \cup {ErrorPayload, Obj(<<Prop("devicetype", Str("myapp"))>>),
          Num(5), Str("scene1"), Str("abc123")}

\* blob.json(): the value the text is the JSON encoding of, if there is one.
JsonParse(text) ==
  IF \E v \in JsonDomain : JSON_stringify(v) = Str(text)
  THEN [ok |-> TRUE, v |-> CHOOSE v \in JsonDomain : JSON_stringify(v) = Str(text)]
  ELSE [ok |-> FALSE, v |-> Undefined]

(***************************************************************************)
(* The application (src/src/App.vue): the component's data, the handlers   *)
(* of the page's buttons and of the controllers' events, the browser store *)
(* (idbKeyval) and the lights the bridge reports.                          *)
(*                                                                         *)
(* A light object is a record; this.lights, this.configuredLights,         *)
(* this.calibrationLight and this.lightToConfigure refer to light objects, *)
(* so they hold indices into app.objs, the objects made since the page was *)
(* loaded (0 is undefined).  A position is a point on a line.              *)
(* Handlers are operators from the component's data to the data they       *)
(* leave; threw marks that the handler ended with a TypeError.             *)
(***************************************************************************)

MaxLights == 2

MaxSessions == 2

MaxRounds == 2

MaxPulls == 2

MaxSent == 3

Uids == {"a", "b", "c"}

Points == {1, 3}

\* const SYNC_DELAY: the time between two syncs with the bridge, in ms.
SYNC_DELAY == 90

\* The steps by which time passes, in ms.
Ticks == {45, 90}

\* The address of the bridge; '' stands for no address.
Address == "192.168.0.2"

\* The connectBridge calls whose getConfig is unanswered, and the discover
\* calls unanswered, at one time.
MaxConnects == 2

\* The two controllers, each with a cursor.
Hands == {"leftHand", "rightHand"}

\* What getLights of the bridge reports during one session: for each light
\* number the uniqueid of the light, "" where there is no light.
Views ==
  {v \in [1..MaxLights -> Uids \cup {""}] :
     \A i \in 1..MaxLights, j \in 1..MaxLights : (i # j /\ v[i] # "") => v[i] # v[j]}

\* Vectors: undefined, the object {}, a THREE.Vector3, and a vector of NaN.
NoVec == [k |-> "undefined", x |-> 0]

EmptyObj == [k |-> "empty", x |-> 0]

Vec(x) == [k |-> "vec", x |-> x]

NaNVec == [k |-> "nan", x |-> 0]

\* new THREE.Vector3().subVectors(a, b), a and b objects: a.x - b.x, which
\* is NaN when a coordinate is undefined or NaN.
subVectors(a, b) ==
  IF a.k = "vec" /\ b.k = "vec" THEN Vec(a.x - b.x) ELSE NaNVec

\* The last run of syncLights: what started it (by), the time that had
\* passed since the run before it (gap), and the requests it handed to
\* setLightState (sent).
NoRun == [by |-> "none", gap |-> 0, sent |-> {}]

\* light.previousColor before the first mouseenter, and as mouseenter
\* leaves it.
NoColor == [k |-> "undefined", bri |-> 0]

Color(bri) == [k |-> "obj", bri |-> bri]

\* data(): the component's data when the page is loaded, with the promises
\* and the timers the page holds: pending, the Promise.all of configureLight
\* not yet settled; sent, the colour commands handed to setLightState so
\* far; round, the number of configureLight calls; timers, the timers set
\* and neither fired nor cleared, each with the time left until it is due;
\* syncTimeout, a timer's id (0 is null); sinceSync, the time since
\* lastSync, which counts up to SYNC_DELAY; connects, the connectBridge
\* calls whose getConfig is unanswered, each with the address it asks, its
\* 5 s timer and the promise it returned; discovers, the number of
\* hue.discover() calls unanswered.
appData ==
  [objs |-> <<>>, lights |-> <<>>, configuredLights |-> <<>>,
   calibrationLight |-> 0, lightToConfigure |-> 0, hoveredLight |-> 0,
   firstStart |-> TRUE, bridgeAddress |-> "", connectStatus |-> "disconnected",
   connects |-> <<>>, discovers |-> 0,
   collectPointsInterval |-> FALSE, configureLightMode |-> FALSE,
   calibrationMode |-> FALSE, syncTimeout |-> 0, timers |-> {},
   sinceSync |-> 0, ran |-> NoRun,
   pending |-> <<>>, sent |-> <<>>, round |-> 0, pulls |-> 0,
   updateIDB |-> 0, threw |-> FALSE]

\* The store before anything was saved.
NoStore ==
  [configuredLights |-> <<>>, calibrationLightNumber |-> 0, bridgeAddress |-> ""]

\* this.lights[index], index counted from 0.
lightAt(a, index) ==
  IF index + 1 \in DOMAIN a.lights THEN a.lights[index + 1] ELSE 0

\* repositionAllBasedOnCalibrationLight, from the i-th configured light on.
RECURSIVE reposition(_, _)
reposition(a, i) ==
  IF a.threw \/ i > Len(a.configuredLights) THEN a
  ELSE LET ref == a.configuredLights[i]
       IN IF ref = a.calibrationLight THEN reposition(a, i + 1)
          ELSE IF a.calibrationLight = 0
                    \/ a.objs[ref].relativePosition.k = "undefined"
          THEN [a EXCEPT !.threw = TRUE]
          ELSE reposition(
                 [a EXCEPT !.objs[ref].position =
                    subVectors(a.objs[a.calibrationLight].position,
                               a.objs[ref].relativePosition)], i + 1)

repositionAllBasedOnCalibrationLight(a) == reposition(a, 1)

\* setRelativePosition(light)
setRelativePosition(a, ref) ==
  IF a.calibrationLight = 0 THEN [a EXCEPT !.threw = TRUE]
  ELSE [a EXCEPT !.objs[ref].relativePosition =
          subVectors(a.objs[a.calibrationLight].position, a.objs[ref].position)]

\* this.configuredLights.forEach(this.setRelativePosition), from the i-th on
RECURSIVE setRelativePositions(_, _)
setRelativePositions(a, i) ==
  IF a.threw \/ i > Len(a.configuredLights) THEN a
  ELSE setRelativePositions(setRelativePosition(a, a.configuredLights[i]), i + 1)

\* A colour command for the light to configure, in the round it belongs to.
Command(a, hue, round) ==
  [light |-> a.objs[a.lightToConfigure].number, hue |-> hue, round |-> round]

\* configureLight(l): the other lights are switched off; when all of these
\* requests have been answered the light to configure is made red.  With no
\* other light Promise.all([]) is fulfilled already and the callback runs
\* when the handler has returned.
configureLight(a, l) ==
  IF l = 0 THEN [a EXCEPT !.threw = TRUE]
  ELSE LET b == [a EXCEPT !.lightToConfigure = l, !.round = @ + 1]
           lightOffPromise ==
             {i \in DOMAIN b.lights :
                /\ b.objs[b.lights[i]].number # 7
                /\ b.objs[b.lights[i]].number # b.objs[l].number}
       IN IF lightOffPromise = {}
          THEN [b EXCEPT !.sent = Append(@, Command(b, "RED", b.round))]
          ELSE [b EXCEPT !.pending =
                  Append(@, [round |-> b.round, left |-> Cardinality(lightOffPromise)])]

\* toggleConfiguration()
toggleConfiguration(a) ==
  LET b == [a EXCEPT !.configureLightMode = ~@]
  IN IF b.configureLightMode THEN configureLight(b, lightAt(b, 0))
     ELSE repositionAllBasedOnCalibrationLight(b)

\* startCalibrationMode()
startCalibrationMode(a) ==
  configureLight([a EXCEPT !.calibrationMode = TRUE], a.calibrationLight)

\* state.bri of a light as the bridge reports it.
BridgeBri(uniqueid) == IF uniqueid = "b" THEN 220 ELSE 250

\* The light object pullLights makes of the bridge's light at index: the
\* stored light with the same uniqueid assigned over it, if there is one.
mergedLight(bridgeLights, storedLights, index) ==
  LET found == {i \in DOMAIN storedLights :
                  storedLights[i].uniqueid = bridgeLights[index]}
      first == CHOOSE i \in found : \A j \in found : i <= j
  IN IF found # {} THEN [storedLights[first] EXCEPT !.number = index]
     ELSE [number |-> index, uniqueid |-> bridgeLights[index],
           position |-> EmptyObj, relativePosition |-> NoVec,
           state |-> [bri |-> BridgeBri(bridgeLights[index]), hue |-> 0],
           changed |-> FALSE, previousColor |-> NoColor]

\* The loop of pullLights over the bridge's lights, from index on.
RECURSIVE mergeLights(_, _, _, _)
mergeLights(a, bridgeLights, stored, index) ==
  IF index \notin DOMAIN bridgeLights THEN a
  ELSE IF bridgeLights[index] = "" THEN mergeLights(a, bridgeLights, stored, index + 1)
  ELSE LET storedLights == stored.configuredLights
           isStored == \E i \in DOMAIN storedLights :
                         storedLights[i].uniqueid = bridgeLights[index]
           ref == Len(a.objs) + 1
           b == [a EXCEPT
                   !.objs = Append(@, mergedLight(bridgeLights, storedLights, index)),
                   !.lights = Append(@, ref),
                   !.configuredLights = IF isStored THEN Append(@, ref) ELSE @,
                   !.calibrationLight =
                     IF index = stored.calibrationLightNumber THEN ref ELSE @]
       IN mergeLights(b, bridgeLights, stored, index + 1)

\* pullLights(), given what the store and the bridge answer.
pullLights(a, bridgeLights, stored) ==
  LET b == [a EXCEPT !.firstStart = (Len(stored.configuredLights) = 0),
                     !.pulls = @ + 1]
  IN IF \A index \in DOMAIN bridgeLights : bridgeLights[index] = "" THEN b
     ELSE repositionAllBasedOnCalibrationLight(mergeLights(b, bridgeLights, stored, 1))

\* connectBridge() when the bridge answers getConfig and getLights.
connectBridge(a, bridgeLights, stored) ==
  LET b == pullLights([a EXCEPT !.connectStatus = "connected"], bridgeLights, stored)
      c == IF b.threw THEN b
           ELSE IF b.firstStart THEN toggleConfiguration(b)
           ELSE startCalibrationMode(b)
  IN IF c.threw THEN [c EXCEPT !.connectStatus = "error"] ELSE c

\* discoverBridge() up to the call of hue.discover()
discoverBridge(a) ==
  [a EXCEPT !.connectStatus = "connecting", !.discovers = @ + 1]

\* The callback discoverBridge gives to then, bridges being the addresses
\* found.
discovered(a, bridges) ==
  IF Len(bridges) = 0
  THEN [a EXCEPT !.connectStatus = "disconnected", !.discovers = @ - 1]
  ELSE [a EXCEPT !.bridgeAddress = bridges[1], !.discovers = @ - 1]

\* The callback discoverBridge gives to catch: the error is logged.
discoverFailed(a) == [a EXCEPT !.discovers = @ - 1]

\* connectBridge() up to its await: the timer is set and getConfig called.
connectStart(a) ==
  [a EXCEPT !.connectStatus = "connecting",
            !.connects = Append(@, [address |-> a.bridgeAddress,
                                    timeout |-> "pending", promise |-> "pending"])]

\* handleError() of the c-th unanswered connectBridge call.
handleError(a, c) ==
  [a EXCEPT !.connectStatus = "error",
            !.connects[c].promise = IF @ = "pending" THEN "rejected" ELSE @]

\* The unanswered calls without the c-th.
Answered(a, c) ==
  [a EXCEPT !.connects = [i \in 1..(Len(@) - 1) |-> IF i < c THEN @[i] ELSE @[i + 1]]]

\* created(), given the address the store holds
created(a, store) ==
  IF store.bridgeAddress # ""
  THEN connectStart([a EXCEPT !.bridgeAddress = store.bridgeAddress])
  ELSE discoverBridge(a)

\* resetConfiguration(), the component's part.
resetConfiguration(a) ==
  [a EXCEPT !.lights = <<>>, !.configuredLights = <<>>, !.calibrationLight = 0,
            !.bridgeAddress = "",
            !.connectStatus = "disconnected", !.firstStart = TRUE,
            !.calibrationMode = FALSE]

\* The configured lights whose changed flag is true (an undefined flag
\* counts as false in every test the code makes).
Changed(a) ==
  {a.configuredLights[i] : i \in {j \in DOMAIN a.configuredLights :
                                    a.objs[a.configuredLights[j]].changed}}

\* syncLights(): the timer held in syncTimeout is cleared, lastSync is now,
\* and the state of every changed configured light is sent.
syncLights_keep(a) ==
  [a EXCEPT
     !.syncTimeout = 0,
     !.sinceSync = 0,
     !.ran = [by |-> "call", gap |-> a.sinceSync,
              sent |-> {[light |-> a.objs[l].number, bri |-> a.objs[l].state.bri,
                         hue |-> a.objs[l].state.hue] : l \in Changed(a)}],
     !.objs = [l \in DOMAIN @ |->
                 IF l \in Changed(a) THEN [@[l] EXCEPT !.changed = FALSE] ELSE @[l]]]

syncLights(a) ==
  [a EXCEPT
     !.timers = {t \in @ : t.id # a.syncTimeout},
     !.syncTimeout = 0,
     !.sinceSync = 0,
     !.ran = [by |-> "call", gap |-> a.sinceSync,
              sent |-> {[light |-> a.objs[l].number, bri |-> a.objs[l].state.bri,
                         hue |-> a.objs[l].state.hue] : l \in Changed(a)}],
     !.objs = [l \in DOMAIN @ |->
                 IF l \in Changed(a) THEN [@[l] EXCEPT !.changed = FALSE] ELSE @[l]]]

\* The id setTimeout returns: one that no timer and no handle has.
NewTimer(a) ==
  CHOOSE id \in 1..(Cardinality(a.timers) + 2) :
    /\ id # a.syncTimeout
    /\ \A t \in a.timers : t.id # id
    /\ \A k \in 1..(id - 1) : k = a.syncTimeout \/ \E t \in a.timers : t.id = k

\* queueSyncLights()
queueSyncLights_always(a) ==
  LET diff == a.sinceSync
  IN IF diff >= SYNC_DELAY THEN [syncLights(a) EXCEPT !.ran.by = "queue"]
     ELSE [a EXCEPT !.syncTimeout = NewTimer(a),
                    !.timers = @ \cup {[id |-> NewTimer(a), left |-> SYNC_DELAY - diff]}]

queueSyncLights(a) ==
  IF a.syncTimeout # 0 THEN a
  ELSE LET diff == a.sinceSync
       IN IF diff >= SYNC_DELAY THEN [syncLights(a) EXCEPT !.ran.by = "queue"]
          ELSE [a EXCEPT !.syncTimeout = NewTimer(a),
                         !.timers = @ \cup {[id |-> NewTimer(a),
                                             left |-> SYNC_DELAY - diff]}]

InMode(a) ==
  (a.configureLightMode \/ a.calibrationMode) /\ a.lightToConfigure # 0

\* triggerDown(evt)
triggerDown(a) ==
  IF InMode(a)
  THEN queueSyncLights(
         [a EXCEPT !.collectPointsInterval = TRUE,
                   !.sent = Append(@, Command(a, "YELLOW", a.round))])
  ELSE a

\* triggerUp(evt); center is the centre of the outline that was drawn.
\* updateIDB records the calibration light's number at the call.
triggerUp(a, center) ==
  IF ~(InMode(a) /\ a.collectPointsInterval) THEN a
  ELSE LET l == a.lightToConfigure
           a1 == [a EXCEPT !.objs[l].position = Vec(center)]
           a2 == IF Len(a1.configuredLights) = 0
                 THEN [a1 EXCEPT !.calibrationLight = l] ELSE a1
           a3 == IF \E i \in DOMAIN a2.configuredLights :
                      a2.objs[a2.configuredLights[i]].number = a2.objs[l].number
                 THEN a2 ELSE [a2 EXCEPT !.configuredLights = Append(@, l),
                                         !.objs[l].changed = FALSE]
           a4 == setRelativePosition(a3, l)
           a5 == [a4 EXCEPT !.updateIDB = a4.objs[a4.calibrationLight].number,
                            !.sent = Append(@, Command(a4, "GREEN", a4.round))]
       IN IF a4.threw THEN a4
          ELSE IF l = a5.calibrationLight /\ a5.calibrationMode
          THEN repositionAllBasedOnCalibrationLight([a5 EXCEPT !.calibrationMode = FALSE])
          ELSE configureLight(
                 IF l = a5.calibrationLight THEN setRelativePositions(a5, 1) ELSE a5,
                 lightAt(a5, a5.objs[l].number + 1))

\* (direction === 'left' ? -1 : 1) % length, as JavaScript computes it
Step(direction, length) ==
  IF length = 1 THEN 0 ELSE IF direction = "left" THEN 0 - 1 ELSE 1

\* trackpadDown(evt, el)
trackpadDown(a, direction) ==
  IF ~a.configureLightMode THEN a
  ELSE IF a.lightToConfigure = 0 \/ Len(a.lights) = 0 THEN [a EXCEPT !.threw = TRUE]
  ELSE LET n0 == a.objs[a.lightToConfigure].number + Step(direction, Len(a.lights))
           n1 == IF n0 > 1 THEN n0 ELSE 1
           nextLightNumber == IF n1 < Len(a.lights) - 1 THEN n1 ELSE Len(a.lights) - 1
       IN configureLight(a, lightAt(a, nextLightNumber - 1))

\* The trackpad's axes and the hue axismove computes from the angle of
\* each: Math.round(angle * (65535 / 360)).
Axes == {<<0, 0>>, <<1, 0>>, <<0, 1>>}

HueOf(axis) == IF axis = <<0, 1>> THEN 16384 ELSE 0

\* Whether axismove(evt) with this axis changes the hovered light.
Moves(a, axis) ==
  /\ axis # <<0, 0>>
  /\ ~(a.configureLightMode \/ a.calibrationMode)
  /\ a.hoveredLight # 0

\* axismove(evt)
axismove_quiet(a, axis) ==
  IF ~Moves(a, axis) THEN a
  ELSE [a EXCEPT !.objs[a.hoveredLight].state.hue = HueOf(axis),
                 !.objs[a.hoveredLight].changed = TRUE]

axismove(a, axis) ==
  IF ~Moves(a, axis) THEN a
  ELSE queueSyncLights([a EXCEPT !.objs[a.hoveredLight].state.hue = HueOf(axis),
                                 !.objs[a.hoveredLight].changed = TRUE])

\* hoverLight(evt, light), type being evt.type
hoverLight(a, type, l) ==
  IF a.configureLightMode \/ a.calibrationMode THEN a
  ELSE LET bri == a.objs[l].state.bri
           b == IF type = "mouseenter"
                THEN [a EXCEPT !.hoveredLight = l,
                               !.objs[l].previousColor = Color(bri),
                               !.objs[l].state.bri =
                                  IF bri <= 200 THEN bri + 50 ELSE bri - 50,
                               !.objs[l].changed = TRUE]
                ELSE IF a.objs[l].changed THEN [a EXCEPT !.hoveredLight = 0]
                ELSE IF a.objs[l].previousColor.k = "undefined"
                THEN [a EXCEPT !.hoveredLight = 0, !.threw = TRUE]
                ELSE [a EXCEPT !.hoveredLight = 0,
                               !.objs[l].state.bri = a.objs[l].previousColor.bri,
                               !.objs[l].changed = TRUE]
       IN IF b.threw THEN b ELSE syncLights(b)

\* What the store holds once the handler has returned: idbKeyval writes in
\* a later microtask, so the lights are stored as the handler left them.
Stored(a, store) ==
  IF a.updateIDB = 0 THEN store
  ELSE [store EXCEPT
          !.configuredLights =
             [i \in DOMAIN a.configuredLights |-> a.objs[a.configuredLights[i]]],
          !.calibrationLightNumber = a.updateIDB]

\* The data as the handler leaves it to the next event.
Settled(a) == [a EXCEPT !.threw = FALSE, !.updateIDB = 0]

(***************************************************************************)
(* State.                                                                  *)
(*   handles : the bridge and user objects constructed so far              *)
(*   calls   : the call whose promise the caller holds (the caller issues  *)
(*             one call at a time): the requests it handed to fetch, the   *)
(*             state of the fetch promise, and the state of the promise    *)
(*             that was returned                                           *)
(*   prev    : how the last call the caller awaited ended                  *)
(*   probe   : an application of _slash on its own: the segments it is     *)
(*             given and, once it has returned, what it returned           *)
(*   app     : the data of the page's component (App.vue)                  *)
(*   idb     : the browser store of the page                               *)
(*   bridgeLights : the lights the bridge reports                          *)
(*   session : the number of times the page was loaded                     *)
(*   cursor  : for each controller the light its cursor is on, with the    *)
(*             brightness the light had before the cursor entered it and   *)
(*             whether axismove has changed the light's colour since       *)
(***************************************************************************)
VARIABLES handles, calls, prev, probe, app, idb, bridgeLights, session, cursor

\* The state of the client objects and of their calls, and the rest.
clientVars == <<handles, calls, prev>>

otherVars == <<probe, app, idb, bridgeLights, session, cursor>>

vars == <<handles, calls, prev, probe, app, idb, bridgeLights, session, cursor>>

NoProbe == [segs |-> <<>>, done |-> FALSE, out |-> ""]

\* A cursor that is on no light, and both cursors on none.
Off == [light |-> 0, bri |-> 0, moved |-> FALSE]

NoCursor == [hand \in Hands |-> Off]

OtherInit ==
  /\ probe = NoProbe
  /\ app = appData
  /\ idb = NoStore
  /\ bridgeLights = [index \in 1..MaxLights |-> ""]
  /\ session = 1
  /\ cursor = NoCursor

NewCall(h, op, args, req) ==
  [h |-> h, op |-> op, args |-> args, reqs |-> <<req>>,
   net |-> "inflight", status |-> 0, text |-> "", job |-> "none",
   state |-> "pending", value |-> Undefined, reason |-> ""]

Idle == calls = <<>>

Init ==
  /\ handles = <<>>
  /\ calls = <<>>
  /\ prev = "none"
  /\ OtherInit

\* Variant: _bridgeUrl is one variable shared by all bridge objects.
Bridge_shared(ip) ==
  /\ Len(handles) < MaxHandles
  /\ handles' = Append([i \in DOMAIN handles |->
                          [handles[i] EXCEPT !._bridgeUrl = bridge(ip)._bridgeUrl]],
                       bridge(ip))
  /\ UNCHANGED <<calls, prev, otherVars>>

\* hue.bridge(ip)
Bridge(ip) ==
  /\ Len(handles) < MaxHandles
  /\ handles' = Append(handles, bridge(ip))
  /\ UNCHANGED <<calls, prev, otherVars>>

\* handles[b].user(username)
User(b, username) ==
  /\ Len(handles) < MaxHandles
  /\ b \in DOMAIN handles
  /\ handles[b].kind = "bridge"
  /\ handles' = Append(handles, user(handles, b, username))
  /\ UNCHANGED <<calls, prev, otherVars>>

\* The request a member of an object sends; h = 0 is the jsHue object itself.
Dispatch(H, h, op, args) ==
  IF h = 0 THEN discover(args)
  ELSE IF H[h].kind = "bridge" THEN createUser(H[h], args)
  ELSE userOp(H[h], op, args)

OpsOf(H, h) ==
  IF h = 0 THEN {"discover"}
  ELSE IF H[h].kind = "bridge" THEN BridgeOps
  ELSE UserOps

\* A call of a member: the synchronous part, up to the return of the promise.
Call(h, op, args) ==
  /\ Idle
  /\ h \in {0} \cup DOMAIN handles
  /\ op \in OpsOf(handles, h)
  /\ calls' = <<NewCall(h, op, args, Dispatch(handles, h, op, args))>>
  /\ UNCHANGED <<handles, prev, otherVars>>

\* _requestJson applied directly to (method, url, data).
RequestJson(method, url, data) ==
  /\ Idle
  /\ LET args == <<Str(method), Str(url), data>>
     IN calls' = <<NewCall(0, "_requestJson", args, _requestJson(args))>>
  /\ UNCHANGED <<handles, prev, otherVars>>

\* The network delivers a response: the fetch promise is fulfilled.
FetchFulfil(c, status, text) ==
  /\ c \in DOMAIN calls
  /\ calls[c].net = "inflight"
  /\ calls' = [calls EXCEPT ![c].net = "response", ![c].status = status,
                            ![c].text = text]
  /\ UNCHANGED <<handles, prev, otherVars>>

\* Variant: a timer of the client rejects the promise of a request that is
\* still in flight.
FetchReject_timeout(c) ==
  /\ c \in DOMAIN calls
  /\ calls[c].net = "inflight"
  /\ calls[c].state = "pending"
  /\ calls' = [calls EXCEPT ![c].state = "rejected", ![c].reason = "timeout"]
  /\ UNCHANGED <<handles, prev, otherVars>>

\* The exchange fails: the fetch promise is rejected.
FetchReject(c) ==
  /\ c \in DOMAIN calls
  /\ calls[c].net = "inflight"
  /\ calls' = [calls EXCEPT ![c].net = "error"]
  /\ UNCHANGED <<handles, prev, otherVars>>

\* then(blob => blob.json()) on a fulfilled fetch: the body starts to be read.
ThenFulfilled(c) ==
  /\ c \in DOMAIN calls
  /\ calls[c].net = "response"
  /\ calls[c].job = "none"
  /\ calls' = [calls EXCEPT ![c].job = "reading"]
  /\ UNCHANGED <<handles, prev, otherVars>>

\* Variant: a failed exchange resolves the promise with an empty object.
ThenRejected_default(c) ==
  /\ c \in DOMAIN calls
  /\ calls[c].net = "error"
  /\ calls[c].state = "pending"
  /\ calls' = [calls EXCEPT ![c].state = "resolved", ![c].value = Obj(<<>>),
                            ![c].job = "done"]
  /\ UNCHANGED <<handles, prev, otherVars>>

\* Variant: a failed exchange is tried once more before it is given up.
ThenRejected_retry(c) ==
  /\ c \in DOMAIN calls
  /\ calls[c].net = "error"
  /\ calls[c].state = "pending"
  /\ calls' = IF Len(calls[c].reqs) < 2
              THEN [calls EXCEPT ![c].reqs = Append(@, @[1]),
                                 ![c].net = "inflight"]
              ELSE [calls EXCEPT ![c].state = "rejected",
                                 ![c].reason = "TypeError", ![c].job = "done"]
  /\ UNCHANGED <<handles, prev, otherVars>>

\* then(...) on a rejected fetch: there is no rejection handler, the
\* returned promise is rejected with the same reason.
ThenRejected(c) ==
  /\ c \in DOMAIN calls
  /\ calls[c].net = "error"
  /\ calls[c].state = "pending"
  /\ calls' = [calls EXCEPT ![c].state = "rejected", ![c].reason = "TypeError",
                            ![c].job = "done"]
  /\ UNCHANGED <<handles, prev, otherVars>>

\* Variant: the response is kept in one place shared by all calls, so the
\* body that is read is the one of the first call.
JsonSettle_first(c) ==
  /\ c \in DOMAIN calls
  /\ calls[c].job = "reading"
  /\ LET parsed == JsonParse(calls[1].text)
     IN calls' = IF parsed.ok
                 THEN [calls EXCEPT ![c].state = "resolved",
                                    ![c].value = parsed.v, ![c].job = "done"]
                 ELSE [calls EXCEPT ![c].state = "rejected",
                                    ![c].reason = "SyntaxError",
                                    ![c].job = "done"]
  /\ UNCHANGED <<handles, prev, otherVars>>

\* Variant: a response with an error status rejects the promise.
JsonSettle_status(c) ==
  /\ c \in DOMAIN calls
  /\ calls[c].job = "reading"
  /\ LET parsed == JsonParse(calls[c].text)
     IN calls' = IF parsed.ok /\ calls[c].status < 400
                 THEN [calls EXCEPT ![c].state = "resolved",
                                    ![c].value = parsed.v, ![c].job = "done"]
                 ELSE [calls EXCEPT ![c].state = "rejected",
                                    ![c].reason = "SyntaxError",
                                    ![c].job = "done"]
  /\ UNCHANGED <<handles, prev, otherVars>>

\* blob.json() settles and the returned promise follows it.
JsonSettle(c) ==
  /\ c \in DOMAIN calls
  /\ calls[c].job = "reading"
  /\ LET parsed == JsonParse(calls[c].text)
     IN calls' = IF parsed.ok
                 THEN [calls EXCEPT ![c].state = "resolved",
                                    ![c].value = parsed.v, ![c].job = "done"]
                 ELSE [calls EXCEPT ![c].state = "rejected",
                                    ![c].reason = "SyntaxError",
                                    ![c].job = "done"]
  /\ UNCHANGED <<handles, prev, otherVars>>

\* The caller's continuation has taken the outcome of the settled promise
\* and lets go of it; its next call, if any, comes after this.
Await(c) ==
  /\ c \in DOMAIN calls
  /\ calls[c].state # "pending"
  /\ calls' = <<>>
  /\ prev' = calls[c].state
  /\ UNCHANGED <<handles, otherVars>>

Network ==
  \E c \in {1} :
    \/ \E status \in Statuses, text \in Texts : FetchFulfil(c, status, text)
    \/ FetchReject(c)
    \/ ThenFulfilled(c)
    \/ ThenRejected(c)
    \/ JsonSettle(c)
    \/ Await(c)

Next ==
  \/ \E ip \in Addresses : Bridge(ip)
  \/ \E b \in DOMAIN handles, username \in Usernames : User(b, username)
  \/ /\ Idle
     /\ \E h \in {0} \cup DOMAIN handles :
          \E op \in OpsOf(handles, h), args \in ArgLists : Call(h, op, args)
  \/ Network

Spec == Init /\ [][Next]_vars

NextJson ==
  \/ /\ Idle
     /\ \E method \in Methods, url \in Urls, data \in DataValues :
          RequestJson(method, url, data)
  \/ Network

SpecJson == Init /\ [][NextJson]_vars

(***************************************************************************)
(* Calls issued without waiting for one another: the caller holds up to    *)
(* MaxCalls promises at a time, on a bridge object and a user object       *)
(* constructed beforehand.                                                 *)
(***************************************************************************)

\* At most this many calls are issued.
MaxCalls == 2

\* The calls the caller issues: (object, member, argument list).
ConcSites ==
  {<<1, "createUser", <<Str("myapp")>>>>,
   <<2, "getLights", <<>>>>,
   <<2, "setLightState", <<Num(5), StateOn>>>>}

InitConc ==
  /\ handles = <<bridge(Str("10.0.0.5")),
                 user(<<bridge(Str("10.0.0.5"))>>, 1, Str("abc123"))>>
  /\ calls = <<>>
  /\ prev = "none"
  /\ OtherInit

\* Variant: each request's URL is made unique by a counter.
CallConc_stamp(h, op, args) ==
  /\ Len(calls) < MaxCalls
  /\ h \in DOMAIN handles
  /\ op \in OpsOf(handles, h)
  /\ LET r == Dispatch(handles, h, op, args)
     IN calls' = Append(calls,
          NewCall(h, op, args, [r EXCEPT !.url = @ \o "?_=" \o NumToStr(Len(calls))]))
  /\ UNCHANGED <<handles, prev, otherVars>>

\* A call of a member while earlier calls may be outstanding: fetch is
\* called in the synchronous part of the call.
CallConc(h, op, args) ==
  /\ Len(calls) < MaxCalls
  /\ h \in DOMAIN handles
  /\ op \in OpsOf(handles, h)
  /\ calls' = Append(calls, NewCall(h, op, args, Dispatch(handles, h, op, args)))
  /\ UNCHANGED <<handles, prev, otherVars>>

NextConc ==
  \/ \E site \in ConcSites : CallConc(site[1], site[2], site[3])
  \/ \E c \in DOMAIN calls, status \in Statuses, text \in Texts :
        FetchFulfil(c, status, text)
  \/ \E c \in DOMAIN calls : FetchReject(c)
  \/ \E c \in DOMAIN calls : ThenFulfilled(c)
  \/ \E c \in DOMAIN calls : ThenRejected(c)
  \/ \E c \in DOMAIN calls : JsonSettle(c)

SpecConc == InitConc /\ [][NextConc]_vars

(***************************************************************************)
(* The synchronous part of the calls alone: objects are constructed and a  *)
(* member is called; what is observed is the request it hands to fetch.    *)
(***************************************************************************)

\* The argument lists of ArgLists, and the session's own username as the
\* one argument.
SyncArgLists == ArgLists \cup {<<Str("abc123")>>}

NextSync ==
  \/ \E ip \in Addresses : Bridge(ip)
  \/ \E b \in DOMAIN handles, username \in Usernames : User(b, username)
  \/ /\ Idle
     /\ \E h \in {0} \cup DOMAIN handles :
          \E op \in OpsOf(handles, h), args \in SyncArgLists : Call(h, op, args)

SpecSync == Init /\ [][NextSync]_vars

(***************************************************************************)
(* _slash on its own, applied once to a list of up to MaxSegs segments.    *)
(***************************************************************************)

MaxSegs == 3

Segs == {Str(""), Str("a"), Str("lights"), Num(5)}

SegLists == UNION {[1..n -> Segs] : n \in 0..MaxSegs}

InitSlash ==
  /\ handles = <<>>
  /\ calls = <<>>
  /\ prev = "none"
  /\ probe \in {[segs |-> s, done |-> FALSE, out |-> ""] : s \in SegLists}
  /\ app = appData
  /\ idb = NoStore
  /\ bridgeLights = [index \in 1..MaxLights |-> ""]
  /\ session = 1
  /\ cursor = NoCursor

Slash ==
  /\ ~probe.done
  /\ probe' = [probe EXCEPT !.done = TRUE, !.out = _slash(probe.segs)]
  /\ UNCHANGED <<clientVars, app, idb, bridgeLights, session, cursor>>

NextSlash == Slash

SpecSlash == InitSlash /\ [][NextSlash]_vars

(***************************************************************************)
(* The page: its events, the bridge's answers and a reload.  The events    *)
(* of a page load follow one another within SYNC_DELAY, so the timer that  *)
(* queueSyncLights sets is not yet due.                                    *)
(***************************************************************************)

\* The bound of a page's history: pullLights runs at most MaxPulls times,
\* configureLight at most MaxRounds times, and at most MaxSent colour
\* commands are sent.
Bounded(a) ==
  a.pulls <= MaxPulls /\ a.round <= MaxRounds /\ Len(a.sent) <= MaxSent

\* The page is loaded anew: the component starts from data(), the store is
\* kept, and the bridge reports the lights it has now.
Reload(view) ==
  /\ session < MaxSessions
  /\ session' = session + 1
  /\ bridgeLights' = view
  /\ app' = appData
  /\ cursor' = NoCursor
  /\ UNCHANGED <<idb, clientVars, probe>>

\* connectBridge(), by created() or by the connect button, which is shown
\* while the status is not 'connected', with the bridge's address stored or
\* typed in; answered tells whether the bridge answers, which it does
\* before the 5 s timer fires.
ConnectBridge(answered) ==
  /\ app.connectStatus # "connected"
  /\ app' = IF answered
            THEN Settled(connectBridge([app EXCEPT !.bridgeAddress = Address],
                                       bridgeLights, idb))
            ELSE [app EXCEPT !.bridgeAddress = Address, !.connectStatus = "error"]
  /\ idb' = IF answered THEN [idb EXCEPT !.bridgeAddress = Address] ELSE idb
  /\ Bounded(app')
  /\ UNCHANGED <<bridgeLights, session, clientVars, probe, cursor>>

\* The reset button; the spheres of the lights leave the scene.
ResetConfiguration ==
  /\ app.connectStatus = "connected"
  /\ app' = resetConfiguration(app)
  /\ idb' = [idb EXCEPT !.configuredLights = <<>>, !.bridgeAddress = ""]
  /\ cursor' = NoCursor
  /\ Bounded(app')
  /\ UNCHANGED <<bridgeLights, session, clientVars, probe>>

\* The configure button.
ToggleConfiguration ==
  /\ app.connectStatus = "connected"
  /\ app' = Settled(toggleConfiguration(app))
  /\ Bounded(app')
  /\ UNCHANGED <<idb, bridgeLights, session, clientVars, probe, cursor>>

\* A click on a light of the list shown in configure mode.
ConfigureLight(i) ==
  /\ app.connectStatus = "connected"
  /\ app.configureLightMode
  /\ i \in DOMAIN app.lights
  /\ app' = Settled(configureLight(app, app.lights[i]))
  /\ Bounded(app')
  /\ UNCHANGED <<idb, bridgeLights, session, clientVars, probe, cursor>>

\* The recalibrate button.
StartCalibrationMode ==
  /\ app.connectStatus = "connected"
  /\ app' = Settled(startCalibrationMode(app))
  /\ Bounded(app')
  /\ UNCHANGED <<idb, bridgeLights, session, clientVars, probe, cursor>>

\* The trigger of a controller is pressed.
TriggerDown ==
  /\ InMode(app)
  /\ app' = Settled(triggerDown(app))
  /\ Bounded(app')
  /\ UNCHANGED <<idb, bridgeLights, session, clientVars, probe, cursor>>

\* The trigger of a controller is released.
TriggerUp(center) ==
  /\ InMode(app) /\ app.collectPointsInterval
  /\ LET a == triggerUp(app, center)
     IN /\ app' = Settled(a)
        /\ idb' = Stored(a, idb)
  /\ Bounded(app')
  /\ UNCHANGED <<bridgeLights, session, clientVars, probe, cursor>>

\* The trackpad of a controller is pressed.
TrackpadDown(direction) ==
  /\ app.configureLightMode
  /\ app' = Settled(trackpadDown(app, direction))
  /\ Bounded(app')
  /\ UNCHANGED <<idb, bridgeLights, session, clientVars, probe, cursor>>

\* The bridge answers one of the requests that switch the other lights
\* off.  With the last answer Promise.all is fulfilled and its callback
\* makes red the light that is this.lightToConfigure by then.
LightOffFulfilled(g) ==
  /\ g \in DOMAIN app.pending
  /\ LET p == app.pending[g]
         others == [i \in 1..(Len(app.pending) - 1) |->
                      IF i < g THEN app.pending[i] ELSE app.pending[i + 1]]
     IN app' = IF p.left > 1 THEN [app EXCEPT !.pending[g].left = @ - 1]
               ELSE [app EXCEPT !.pending = others,
                                !.sent = Append(@, Command(app, "RED", p.round))]
  /\ Bounded(app')
  /\ UNCHANGED <<idb, bridgeLights, session, clientVars, probe, cursor>>

\* One of these requests fails: Promise.all is rejected and the callback
\* never runs.
LightOffRejected(g) ==
  /\ g \in DOMAIN app.pending
  /\ app' = [app EXCEPT !.pending =
               [i \in 1..(Len(app.pending) - 1) |->
                  IF i < g THEN app.pending[i] ELSE app.pending[i + 1]]]
  /\ Bounded(app')
  /\ UNCHANGED <<idb, bridgeLights, session, clientVars, probe, cursor>>

InitApp ==
  /\ handles = <<>>
  /\ calls = <<>>
  /\ prev = "none"
  /\ probe = NoProbe
  /\ app = appData
  /\ idb = NoStore
  /\ bridgeLights \in Views
  /\ session = 1
  /\ cursor = NoCursor

NextApp ==
  \/ \E view \in Views : Reload(view)
  \/ \E answered \in BOOLEAN : ConnectBridge(answered)
  \/ ResetConfiguration
  \/ ToggleConfiguration
  \/ \E i \in 1..MaxLights : ConfigureLight(i)
  \/ StartCalibrationMode
  \/ TriggerDown
  \/ \E center \in Points : TriggerUp(center)
  \/ \E direction \in {"left", "right"} : TrackpadDown(direction)
  \/ \E g \in 1..MaxRounds : LightOffFulfilled(g)
  \/ \E g \in 1..MaxRounds : LightOffRejected(g)

SpecApp == InitApp /\ [][NextApp]_vars

(***************************************************************************)
(* The page in use: the lights a and b were configured in an earlier       *)
(* session, the page was loaded again and the user has calibrated, so the  *)
(* page is in neither configure nor calibration mode.  The cursors of the  *)
(* controllers enter and leave the lights' spheres, the trackpads are      *)
(* touched, time passes, timers fire, and the reset button may be clicked. *)
(***************************************************************************)

\* What the earlier session stored: a at 1, the calibration light, and b at 3.
StoredLights ==
  [configuredLights |->
     <<[number |-> 1, uniqueid |-> "a", position |-> Vec(1),
        relativePosition |-> Vec(0), state |-> [bri |-> 250, hue |-> 0],
        changed |-> FALSE, previousColor |-> NoColor],
       [number |-> 2, uniqueid |-> "b", position |-> Vec(3),
        relativePosition |-> Vec(0 - 2), state |-> [bri |-> 220, hue |-> 0],
        changed |-> FALSE, previousColor |-> NoColor]>>,
   calibrationLightNumber |-> 1, bridgeAddress |-> Address]

\* The component's data once connectBridge has pulled the lights and the
\* user has drawn the outline of the calibration light.
Calibrated ==
  Settled(triggerUp(triggerDown(
    Settled(connectBridge([appData EXCEPT !.bridgeAddress = Address],
                          <<"a", "b">>, StoredLights))), 1))

\* The lights that have a sphere in the scene.
Rendered(a) == {a.configuredLights[i] : i \in DOMAIN a.configuredLights}

\* The light the cursor of a controller is on, 0 if it is on none.
On(hand) ==
  IF cursor[hand].light \in Rendered(app) THEN cursor[hand].light ELSE 0

\* The cursor of a controller enters the sphere of a light.
MouseEnter(hand, l) ==
  /\ l \in Rendered(app)
  /\ On(hand) = 0
  /\ app' = Settled(hoverLight(app, "mouseenter", l))
  /\ cursor' = [cursor EXCEPT ![hand] =
                  [light |-> l, bri |-> app.objs[l].state.bri, moved |-> FALSE]]
  /\ Bounded(app')
  /\ UNCHANGED <<idb, bridgeLights, session, clientVars, probe>>

\* The cursor of a controller leaves the sphere it is on.
MouseLeave(hand) ==
  /\ On(hand) # 0
  /\ app' = Settled(hoverLight(app, "mouseleave", On(hand)))
  /\ cursor' = [cursor EXCEPT ![hand] = Off]
  /\ Bounded(app')
  /\ UNCHANGED <<idb, bridgeLights, session, clientVars, probe>>

\* The trackpad of a controller is touched.
Axismove(axis) ==
  /\ app' = Settled(axismove(app, axis))
  /\ cursor' = [hand \in Hands |->
                  IF Moves(app, axis) /\ cursor[hand].light = app.hoveredLight
                  THEN [cursor[hand] EXCEPT !.moved = TRUE] ELSE cursor[hand]]
  /\ Bounded(app')
  /\ UNCHANGED <<idb, bridgeLights, session, clientVars, probe>>

\* Time passes: d ms.
Tick(d) ==
  /\ app' = [app EXCEPT
               !.sinceSync = IF @ + d < SYNC_DELAY THEN @ + d ELSE SYNC_DELAY,
               !.timers = {[t EXCEPT !.left = IF @ > d THEN @ - d ELSE 0] : t \in @}]
  /\ app' # app
  /\ UNCHANGED <<idb, bridgeLights, session, clientVars, probe, cursor>>

\* The ids of timers; an id is used again once no timer and no handle
\* has it.
TimerIds == {1, 2, 3}

\* The timer id of queueSyncLights is due and fires: its callback is
\* syncLights.
SyncTimer(id) ==
  /\ \E t \in app.timers : t.id = id /\ t.left = 0
  /\ app' = Settled([syncLights([app EXCEPT !.timers = {t \in @ : t.id # id}])
                      EXCEPT !.ran.by = "timer"])
  /\ Bounded(app')
  /\ UNCHANGED <<idb, bridgeLights, session, clientVars, probe, cursor>>

InitHover ==
  /\ handles = <<>>
  /\ calls = <<>>
  /\ prev = "none"
  /\ probe = NoProbe
  /\ app = Calibrated
  /\ idb = StoredLights
  /\ bridgeLights = <<"a", "b">>
  /\ session = MaxSessions
  /\ cursor = NoCursor

NextHover ==
  \/ \E hand \in Hands, l \in 1..MaxLights : MouseEnter(hand, l)
  \/ \E hand \in Hands : MouseLeave(hand)
  \/ \E axis \in Axes : Axismove(axis)
  \/ \E d \in Ticks : Tick(d)
  \/ \E id \in TimerIds : SyncTimer(id)
  \/ ResetConfiguration

SpecHover == InitHover /\ [][NextHover]_vars

\* Time passes, and a timer that is due fires.
SpecHoverFair ==
  /\ SpecHover
  /\ WF_vars(\E d \in Ticks : Tick(d))
  /\ WF_vars(\E id \in TimerIds : SyncTimer(id))

(***************************************************************************)
(* Connecting: the page is loaded and created() runs; the user types an    *)
(* address, clicks the connect button, the discover link and the reset     *)
(* button; the bridge and the discovery service answer or fail, and the    *)
(* 5 s timers of connectBridge fire.                                       *)
(***************************************************************************)

\* The user types into the address field.
EnterAddress(address) ==
  /\ app.connectStatus # "connected"
  /\ app.bridgeAddress # address
  /\ app' = [app EXCEPT !.bridgeAddress = address]
  /\ UNCHANGED <<idb, bridgeLights, session, clientVars, probe, cursor>>

\* The discover link.
DiscoverBridge ==
  /\ app.connectStatus # "connected"
  /\ app.discovers < MaxConnects
  /\ app' = discoverBridge(app)
  /\ UNCHANGED <<idb, bridgeLights, session, clientVars, probe, cursor>>

\* hue.discover() is fulfilled, with the bridge or with none.
DiscoverFulfilled(found) ==
  /\ app.discovers > 0
  /\ app' = discovered(app, IF found THEN <<Address>> ELSE <<>>)
  /\ UNCHANGED <<idb, bridgeLights, session, clientVars, probe, cursor>>

\* hue.discover() is rejected.
DiscoverRejected ==
  /\ app.discovers > 0
  /\ app' = discoverFailed(app)
  /\ UNCHANGED <<idb, bridgeLights, session, clientVars, probe, cursor>>

\* The connect button.
ConnectButton ==
  /\ app.connectStatus # "connected"
  /\ Len(app.connects) < MaxConnects
  /\ app' = connectStart(app)
  /\ UNCHANGED <<idb, bridgeLights, session, clientVars, probe, cursor>>

\* The 5 s timer of the c-th unanswered connectBridge call fires.
ConnectTimer(c) ==
  /\ c \in DOMAIN app.connects
  /\ app.connects[c].timeout = "pending"
  /\ app' = [handleError(app, c) EXCEPT !.connects[c].timeout = "fired"]
  /\ UNCHANGED <<idb, bridgeLights, session, clientVars, probe, cursor>>

\* The bridge answers getConfig of the c-th unanswered call: connectBridge
\* goes on after its await, the bridge answering getLights as well, and
\* clears its timer.
GetConfigFulfilled(c) ==
  /\ c \in DOMAIN app.connects
  /\ app.connects[c].address # ""
  /\ app' = Settled(connectBridge(Answered(app, c), bridgeLights, idb))
  /\ idb' = [idb EXCEPT !.bridgeAddress = app.bridgeAddress]
  /\ Bounded(app')
  /\ UNCHANGED <<bridgeLights, session, clientVars, probe, cursor>>

\* getConfig of the c-th unanswered call fails: handleError, and the timer
\* is cleared.
GetConfigRejected(c) ==
  /\ c \in DOMAIN app.connects
  /\ app' = Answered(handleError(app, c), c)
  /\ UNCHANGED <<idb, bridgeLights, session, clientVars, probe, cursor>>

InitConnect ==
  /\ handles = <<>>
  /\ calls = <<>>
  /\ prev = "none"
  /\ probe = NoProbe
  /\ idb \in {NoStore, [NoStore EXCEPT !.bridgeAddress = Address]}
  /\ app = created(appData, idb)
  /\ bridgeLights = <<"a", "b">>
  /\ session = 1
  /\ cursor = NoCursor

NextConnect ==
  \/ \E address \in {"", Address} : EnterAddress(address)
  \/ DiscoverBridge
  \/ \E found \in BOOLEAN : DiscoverFulfilled(found)
  \/ DiscoverRejected
  \/ ConnectButton
  \/ \E c \in 1..MaxConnects : ConnectTimer(c)
  \/ \E c \in 1..MaxConnects : GetConfigFulfilled(c)
  \/ \E c \in 1..MaxConnects : GetConfigRejected(c)
  \/ ResetConfiguration

SpecConnect == InitConnect /\ [][NextConnect]_vars

(***************************************************************************)
(* Properties.                                                             *)
(***************************************************************************)

NoBody(r) == r.body.t \in {"undefined", "null"}

Absent(d) == d.t \in {"undefined", "null"}

\* body is a text, and the text is the JSON encoding of the value d
IsJsonTextOf(body, d) ==
  /\ body.t = "str"
  /\ JsonParse(body.s).ok
  /\ JsonParse(body.s).v = d

\* An identifier as it reads in a URL.
IdText(id) == IF id.t = "num" THEN NumToStr(id.n) ELSE id.s

IsId(id) == id.t \in {"num", "str"}

\* http://a/api/u
Root(c) == "http://" \o c.ip.s \o "/api/" \o c.username.s

UserCall(k, op) == k.h # 0 /\ handles[k.h].kind = "user" /\ k.op = op

\* C1: getLights() on bridge(a).user(u) issues exactly one request, a GET of
\* http://a/api/u/lights without body, whatever the argument list, and when
\* the promise is resolved its value is the JSON value the response text
\* encodes.
C1_GetLights ==
  \A c \in DOMAIN calls :
    LET k == calls[c] IN
    UserCall(k, "getLights") =>
      /\ Len(k.reqs) = 1
      /\ k.reqs[1].method = "GET"
      /\ k.reqs[1].url = Root(handles[k.h]) \o "/lights"
      /\ NoBody(k.reqs[1])
      /\ (handles[k.h].ip = Str("10.0.0.5") /\ handles[k.h].username = Str("abc123"))
           => k.reqs[1].url = "http://10.0.0.5/api/abc123/lights"
      /\ k.state = "resolved" =>
           /\ k.net = "response"
           /\ JSON_stringify(k.value) = Str(k.text)
      /\ (k.job = "done" /\ k.text = "{\"on\":true}") =>
           (k.state = "resolved" /\ k.value = StateOn)

C1_Witness ==
  \E c \in DOMAIN calls :
    /\ UserCall(calls[c], "getLights")
    /\ calls[c].args # <<>>
    /\ calls[c].reqs[1].url = "http://10.0.0.5/api/abc123/lights"
    /\ calls[c].state = "resolved"
    /\ calls[c].value = StateOn

\* C2: setLightState(id, d) with an identifier id and a payload d issues
\* exactly one request, a PUT of http://a/api/u/lights/id/state whose body
\* is the JSON text of d.
C2_SetLightState ==
  \A c \in DOMAIN calls :
    LET k == calls[c]
        id == Arg(k.args, 1)
        d == Arg(k.args, 2)
    IN (UserCall(k, "setLightState") /\ IsId(id) /\ ~Absent(d)) =>
         /\ Len(k.reqs) = 1
         /\ k.reqs[1].method = "PUT"
         /\ k.reqs[1].url =
              Root(handles[k.h]) \o "/lights/" \o IdText(id) \o "/state"
         /\ IsJsonTextOf(k.reqs[1].body, d)
         /\ (handles[k.h].ip = Str("10.0.0.5")
               /\ handles[k.h].username = Str("abc123")
               /\ k.args = <<Num(5), StateOn>>)
              => /\ k.reqs[1].url = "http://10.0.0.5/api/abc123/lights/5/state"
                 /\ k.reqs[1].body = Str("{\"on\":true}")

C2_Witness ==
  \E c \in DOMAIN calls :
    /\ UserCall(calls[c], "setLightState")
    /\ calls[c].args = <<Num(5), StateOn>>
    /\ calls[c].reqs[1].url = "http://10.0.0.5/api/abc123/lights/5/state"
    /\ calls[c].reqs[1].body = Str("{\"on\":true}")

\* C3: setSceneLightState(s, l, d) issues exactly one request, a PUT of
\* http://a/api/u/scenes/s/lights/l/state whose body is the JSON text of d;
\* arguments after the third do not change the request.
C3_SetSceneLightState ==
  \A c \in DOMAIN calls :
    LET k == calls[c]
        s == Arg(k.args, 1)
        l == Arg(k.args, 2)
        d == Arg(k.args, 3)
    IN (UserCall(k, "setSceneLightState") /\ IsId(s) /\ IsId(l) /\ ~Absent(d)) =>
         /\ Len(k.reqs) = 1
         /\ k.reqs[1].method = "PUT"
         /\ k.reqs[1].url =
              Root(handles[k.h]) \o "/scenes/" \o IdText(s) \o "/lights/"
                \o IdText(l) \o "/state"
         /\ IsJsonTextOf(k.reqs[1].body, d)
         /\ (handles[k.h].ip = Str("10.0.0.5")
               /\ handles[k.h].username = Str("abc123")
               /\ SubSeq(k.args, 1, 3) = <<Str("scene1"), Num(5), StateBri>>)
              => /\ k.reqs[1].url =
                      "http://10.0.0.5/api/abc123/scenes/scene1/lights/5/state"
                 /\ k.reqs[1].body = Str("{\"bri\":120}")

C3_Witness ==
  \E c \in DOMAIN calls :
    /\ UserCall(calls[c], "setSceneLightState")
    /\ Len(calls[c].args) > 3
    /\ calls[c].reqs[1].url =
         "http://10.0.0.5/api/abc123/scenes/scene1/lights/5/state"
    /\ calls[c].reqs[1].body = Str("{\"bri\":120}")

\* C4: createUser(t) on bridge(a) with a label t issues exactly one request,
\* a POST of exactly http://a/api whose body is the JSON object with the one
\* field devicetype = t.
C4_CreateUser ==
  \A c \in DOMAIN calls :
    LET k == calls[c]
        t == Arg(k.args, 1)
    IN (k.h # 0 /\ handles[k.h].kind = "bridge" /\ k.op = "createUser"
          /\ t.t = "str") =>
         /\ Len(k.reqs) = 1
         /\ k.reqs[1].method = "POST"
         /\ k.reqs[1].url = "http://" \o handles[k.h].ip.s \o "/api"
         /\ k.reqs[1].body = Str("{\"devicetype\":\"" \o t.s \o "\"}")

C4_Witness ==
  \E c \in DOMAIN calls :
    /\ calls[c].h # 0
    /\ handles[calls[c].h].kind = "bridge"
    /\ calls[c].op = "createUser"
    /\ calls[c].reqs[1].url = "http://10.0.0.5/api"
    /\ calls[c].reqs[1].body = Str("{\"devicetype\":\"myapp\"}")

\* C5: when fetch rejects, or the response body is not JSON, the promise of
\* the call is never resolved, it holds no value, and once the reaction has
\* run it is rejected.
C5_FailureRejects ==
  \A c \in DOMAIN calls :
    LET k == calls[c] IN
    (k.net = "error" \/ (k.net = "response" /\ k.text = "<html>")) =>
      /\ k.state # "resolved"
      /\ k.value = Undefined
      /\ k.job = "done" => k.state = "rejected"

C5_Witness ==
  \E c \in DOMAIN calls :
    /\ calls[c].h # 0
    /\ calls[c].net = "error"
    /\ calls[c].state = "rejected"

\* C6: when the bridge answers with a JSON error payload, under any status
\* code, the promise is never rejected, and once the body is read it is
\* resolved with exactly that payload.
C6_ErrorPayloadResolves ==
  \A c \in DOMAIN calls :
    LET k == calls[c] IN
    (k.net = "response" /\ k.text = "{\"error\":\"unauthorized user\"}") =>
      /\ k.state # "rejected"
      /\ k.job = "done" => (k.state = "resolved" /\ k.value = ErrorPayload)

C6_Witness ==
  \E c \in DOMAIN calls :
    /\ calls[c].h # 0
    /\ calls[c].status = 403
    /\ calls[c].state = "resolved"
    /\ calls[c].value = ErrorPayload

\* C7: a call has handed exactly one request to fetch, at every moment from
\* its start on, however its exchange ends.
C7_OneRequest ==
  \A c \in DOMAIN calls : Len(calls[c].reqs) = 1

C7_Witness ==
  \E c \in DOMAIN calls :
    /\ calls[c].h # 0
    /\ calls[c].state = "rejected"
    /\ calls[c].reason = "TypeError"
    /\ Len(calls[c].reqs) = 1
    /\ prev = "resolved"

\* C8: _requestJson(method, url, data) hands fetch the JSON text of data as
\* body when data is neither null nor undefined, and no body when it is.
C8_BodyIffData ==
  \A c \in DOMAIN calls :
    LET k == calls[c]
        data == Arg(k.args, 3)
        r == k.reqs[1]
    IN k.op = "_requestJson" =>
         /\ r.method = k.args[1].s
         /\ r.url = k.args[2].s
         /\ Absent(data) => NoBody(r)
         /\ ~Absent(data) => r.body.t = "str"
         /\ (~Absent(data) /\ data \in JsonDomain) => IsJsonTextOf(r.body, data)
         /\ data = StateOn => r.body = Str("{\"on\":true}")
         /\ data = Num(120) => r.body = Str("120")
         /\ data = Str("myapp") => r.body = Str("\"myapp\"")
         /\ (~Absent(data) /\ data \notin JsonDomain) =>
              r.body = Str("{\"devicetype\":\"myapp\"}")

C8_Witness ==
  \E c \in DOMAIN calls :
    /\ calls[c].op = "_requestJson"
    /\ calls[c].args[3] = Null
    /\ calls[c].args[1] = Str("POST")
    /\ NoBody(calls[c].reqs[1])

\* The data an operation that sends PUT or POST hands to the primitive:
\* the object it builds, the null it binds, or one of its arguments.
DataOf(op, args) ==
  CASE op \in {"createUser", "create"} -> Obj(<<>>)
    [] op \in {"searchForNewLights", "searchForNewSensors"} -> Null
    [] op \in {"setConfig", "createGroup", "createSchedule", "createSensor",
               "createRule"} -> Arg(args, 1)
    [] op = "setSceneLightState" -> Arg(args, 3)
    [] OTHER -> Arg(args, 2)

\* C9 as stated: every PUT or POST request carries a JSON text body and
\* every GET or DELETE request carries none.
C9_Original ==
  \A c \in DOMAIN calls :
    LET r == calls[c].reqs[1] IN
    /\ r.method \in {"PUT", "POST"} => r.body.t = "str"
    /\ r.method \in {"GET", "DELETE"} => NoBody(r)

\* C9 amended: a GET or DELETE request carries no body, whatever arguments
\* the caller passes; a PUT or POST request carries a JSON text body exactly
\* when the data the operation hands on is neither null nor undefined, so
\* searchForNewLights and searchForNewSensors (which bind null) and a set or
\* create operation called without data send no body.
C9_BodyByMethodAndData ==
  \A c \in DOMAIN calls :
    LET k == calls[c]
        r == k.reqs[1]
        d == DataOf(k.op, k.args)
    IN /\ r.method \in {"GET", "DELETE"} => NoBody(r)
       /\ r.method \in {"PUT", "POST"} =>
            /\ Absent(d) <=> NoBody(r)
            /\ ~Absent(d) <=> r.body.t = "str"
            /\ (~Absent(d) /\ k.op \notin {"createUser", "create"}) =>
                 IsJsonTextOf(r.body, d)
       /\ k.op \in {"searchForNewLights", "searchForNewSensors"} =>
            (r.method = "POST" /\ NoBody(r))

C9_Witness ==
  \E c \in DOMAIN calls :
    /\ calls[c].op = "searchForNewLights"
    /\ calls[c].args # <<>>
    /\ calls[c].reqs[1].method = "POST"
    /\ NoBody(calls[c].reqs[1])
    /\ calls[c].state = "resolved"

\* The closure a handle has right after its construction from (ip, username).
Fresh(c) ==
  IF c.kind = "bridge" THEN bridge(c.ip)
  ELSE user(<<bridge(c.ip)>>, 1, c.username)

C11_OwnOutcome ==
  \A c \in DOMAIN calls :
    LET k == calls[c] IN
    /\ Len(k.reqs) = 1
    /\ k.reqs[1] = Dispatch(handles, k.h, k.op, k.args)
    /\ k.state = "resolved" =>
         (k.net = "response" /\ JSON_stringify(k.value) = Str(k.text))
    /\ k.state = "rejected" => (k.net = "error" \/ k.text = "<html>")
    /\ (k.job = "done" /\ k.net = "response" /\ k.text # "<html>") =>
         k.state = "resolved"

C11_Witness ==
  /\ Len(calls) = 2
  /\ calls[1].net = "response"
  /\ calls[1].text = "{\"error\":\"unauthorized user\"}"
  /\ calls[1].state = "pending"
  /\ calls[2].state = "resolved"
  /\ calls[2].value = StateOn

\* C12: while the exchange of a call is not complete (the request is in
\* flight, or the body of the response is still being read) its promise is
\* pending.
C12_PendingUntilExchangeEnds ==
  \A c \in DOMAIN calls :
    (calls[c].net = "inflight" \/ calls[c].job \in {"none", "reading"}) =>
      calls[c].state = "pending"

C12_Witness ==
  /\ Len(calls) = 2
  /\ calls[1].job = "reading"
  /\ calls[1].state = "pending"
  /\ calls[2].state = "rejected"
  /\ calls[2].reason = "TypeError"

\* The per-instance members: member, method, collection, sub-path.
InstanceOps ==
  {<<"getLight", "GET", "lights", "">>,
   <<"setLight", "PUT", "lights", "">>,
   <<"setLightState", "PUT", "lights", "/state">>,
   <<"getGroup", "GET", "groups", "">>,
   <<"setGroup", "PUT", "groups", "">>,
   <<"setGroupState", "PUT", "groups", "/action">>,
   <<"deleteGroup", "DELETE", "groups", "">>,
   <<"getSchedule", "GET", "schedules", "">>,
   <<"setSchedule", "PUT", "schedules", "">>,
   <<"deleteSchedule", "DELETE", "schedules", "">>,
   <<"setScene", "PUT", "scenes", "">>,
   <<"getSensor", "GET", "sensors", "">>,
   <<"setSensor", "PUT", "sensors", "">>,
   <<"setSensorConfig", "PUT", "sensors", "/config">>,
   <<"setSensorState", "PUT", "sensors", "/state">>,
   <<"deleteSensor", "DELETE", "sensors", "">>,
   <<"getRule", "GET", "rules", "">>,
   <<"setRule", "PUT", "rules", "">>,
   <<"deleteRule", "DELETE", "rules", "">>}

\* C13: a per-instance member called with an identifier id sends one
\* request with the method its prefix names to R/{collection}/{id} followed
\* by its fixed sub-path, R = http://a/api/u, the identifier written as
\* given; and _objectUrl(base)(id) = _slash(base, id) for every id.
C13_InstanceUrls ==
  \A c \in DOMAIN calls :
    LET k == calls[c]
        id == Arg(k.args, 1)
    IN (k.h # 0 /\ handles[k.h].kind = "user") =>
         /\ \A e \in InstanceOps :
              (k.op = e[1] /\ IsId(id)) =>
                /\ Len(k.reqs) = 1
                /\ k.reqs[1].method = e[2]
                /\ k.reqs[1].url =
                     Root(handles[k.h]) \o "/" \o e[3] \o "/" \o IdText(id) \o e[4]
         /\ \A i \in Ids :
              _objectUrl(handles[k.h]._lightsUrl)[i] =
                _slash(<<Str(handles[k.h]._lightsUrl), i>>)
         /\ _objectUrl(handles[k.h]._scenesUrl)[Str("scene1")] =
              Root(handles[k.h]) \o "/scenes/scene1"

C13_Witness ==
  \E c \in DOMAIN calls :
    /\ calls[c].op = "setGroupState"
    /\ calls[c].args = <<Num(5), StateOn>>
    /\ calls[c].reqs[1].method = "PUT"
    /\ calls[c].reqs[1].url = "http://hue.local/api/lampe-bash/groups/5/action"

\* The collection-level members: member, method, path below R.
CollectionOps ==
  {<<"getLights", "GET", "/lights">>,
   <<"getGroups", "GET", "/groups">>,
   <<"getSchedules", "GET", "/schedules">>,
   <<"getScenes", "GET", "/scenes">>,
   <<"getSensors", "GET", "/sensors">>,
   <<"getRules", "GET", "/rules">>,
   <<"getConfig", "GET", "/config">>,
   <<"createGroup", "POST", "/groups">>,
   <<"createSchedule", "POST", "/schedules">>,
   <<"createSensor", "POST", "/sensors">>,
   <<"createRule", "POST", "/rules">>,
   <<"setConfig", "PUT", "/config">>,
   <<"getFullState", "GET", "">>,
   <<"getTimezones", "GET", "/info/timezones">>,
   <<"getNewLights", "GET", "/lights/new">>,
   <<"getNewSensors", "GET", "/sensors/new">>}

\* C14: a collection-level member sends one request with its method to the
\* fixed path of its family below R = http://a/api/u; the create members
\* send the JSON text of their data as body, the get members no body.
C14_CollectionUrls ==
  \A c \in DOMAIN calls :
    LET k == calls[c]
        d == Arg(k.args, 1)
    IN (k.h # 0 /\ handles[k.h].kind = "user") =>
         \A e \in CollectionOps :
           k.op = e[1] =>
             /\ Len(k.reqs) = 1
             /\ k.reqs[1].method = e[2]
             /\ k.reqs[1].url = Root(handles[k.h]) \o e[3]
             /\ e[2] = "GET" => NoBody(k.reqs[1])
             /\ (e[2] = "POST" /\ ~Absent(d)) => IsJsonTextOf(k.reqs[1].body, d)

C14_Witness ==
  \E c \in DOMAIN calls :
    /\ calls[c].op = "createGroup"
    /\ calls[c].args = <<Str("myapp")>>
    /\ calls[c].reqs[1].method = "POST"
    /\ calls[c].reqs[1].url = "http://10.0.0.5/api/abc123/groups"
    /\ calls[c].reqs[1].body = Str("\"myapp\"")

\* C15 as stated: deleteUser sends one DELETE to R/config/whitelist/{u}
\* where u is the username of the session, as it is in R = http://a/api/u.
C15_Original ==
  \A c \in DOMAIN calls :
    LET k == calls[c] IN
    UserCall(k, "deleteUser") =>
      /\ Len(k.reqs) = 1
      /\ k.reqs[1].method = "DELETE"
      /\ k.reqs[1].url =
           Root(handles[k.h]) \o "/config/whitelist/" \o handles[k.h].username.s

\* C15 amended: deleteUser(name) sends one DELETE without body to
\* R/config/whitelist/{name}: the username in R is the one of the session,
\* the last segment is the argument (empty when there is none), so the
\* session's own entry is deleted when its own username is passed.
C15_DeleteUserByArgument ==
  \A c \in DOMAIN calls :
    LET k == calls[c]
        name == Arg(k.args, 1)
    IN UserCall(k, "deleteUser") =>
         /\ Len(k.reqs) = 1
         /\ k.reqs[1].method = "DELETE"
         /\ NoBody(k.reqs[1])
         /\ k.reqs[1].url =
              Root(handles[k.h]) \o "/config/whitelist/"
                \o (IF Absent(name) THEN "" ELSE IdText(name))
         /\ name = handles[k.h].username =>
              k.reqs[1].url =
                Root(handles[k.h]) \o "/config/whitelist/" \o handles[k.h].username.s

C15_Witness ==
  \E c \in DOMAIN calls :
    /\ calls[c].op = "deleteUser"
    /\ calls[c].args = <<Str("abc123")>>
    /\ calls[c].reqs[1].url = "http://10.0.0.5/api/abc123/config/whitelist/abc123"

\* The members made by _parametrize: member, request function, path of the
\* URL generator before and after its parameter.
ParamOps ==
  {<<e[1], (CASE e[2] = "GET" -> "_get" [] e[2] = "PUT" -> "_put"
              [] OTHER -> "_delete"), "/" \o e[3] \o "/", e[4]>> :
     e \in InstanceOps}
    \cup {<<"deleteUser", "_delete", "/config/whitelist/", "">>}

\* C16: the function _parametrize(requestFn, urlFn) returns, called with
\* (id, ...rest), makes the one call requestFn(urlFn(id), ...rest), rest in
\* the caller's order, and what it returns is that call's result.
C16_Parametrize ==
  \A c \in DOMAIN calls :
    LET k == calls[c]
        id == Arg(k.args, 1)
    IN (k.h # 0 /\ handles[k.h].kind = "user") =>
         /\ \A e \in ParamOps :
              k.op = e[1] =>
                k.reqs =
                  <<apply(e[2],
                          <<Str(Root(handles[k.h]) \o e[3] \o JoinItem(id) \o e[4])>>
                            \o SubSeq(k.args, 2, Len(k.args)))>>
         /\ (k.op = "setScene" /\ Len(k.args) >= 3 /\ k.args[2] = Num(5)) =>
              k.reqs[1].body = Str("5")
         /\ (k.op = "setLight" /\ k.args = <<Num(5), StateOn>>) =>
              k.reqs[1].body = Str("{\"on\":true}")

C16_Witness ==
  \E c \in DOMAIN calls :
    /\ calls[c].op = "setScene"
    /\ Len(calls[c].args) = 5
    /\ calls[c].reqs[1].method = "PUT"
    /\ calls[c].reqs[1].url = "http://10.0.0.5/api/abc123/scenes/scene1"
    /\ calls[c].reqs[1].body = Str("5")

\* A segment as it reads in a path.
SegText(v) == IF v.t = "num" THEN NumToStr(v.n) ELSE v.s

\* The segments from the i-th on, each followed by what follows it.
RECURSIVE PathFrom(_, _)
PathFrom(segs, i) ==
  IF i = Len(segs) THEN SegText(segs[i])
  ELSE SegText(segs[i]) \o "/" \o PathFrom(segs, i + 1)

RECURSIVE TextLen(_, _)
TextLen(segs, i) ==
  IF i > Len(segs) THEN 0 ELSE Len(SegText(segs[i])) + TextLen(segs, i + 1)

\* C17: _slash returns the segments in order with one '/' between each two
\* neighbours and none before the first or after the last: no segment is
\* left out, an empty one included, one segment is returned as it is and no
\* segment gives the empty text.
C17_Slash ==
  probe.done =>
    LET segs == probe.segs
        n == Len(segs)
    IN /\ n = 0 => probe.out = ""
       /\ n = 1 => probe.out = SegText(segs[1])
       /\ n >= 1 => probe.out = PathFrom(segs, 1)
       /\ n >= 1 => Len(probe.out) = TextLen(segs, 1) + (n - 1)
       /\ n = 2 => probe.out = SegText(segs[1]) \o "/" \o SegText(segs[2])

C17_Witness ==
  /\ probe.done
  /\ probe.segs = <<Str("a"), Str(""), Num(5)>>
  /\ probe.out = "a//5"

Reported(uid) == \E n \in DOMAIN bridgeLights : bridgeLights[n] = uid

\* The light objects this.configuredLights refers to.
ConfRefs(a) == {a.configuredLights[i] : i \in DOMAIN a.configuredLights}

IsStored(store, uid) ==
  \E i \in DOMAIN store.configuredLights : store.configuredLights[i].uniqueid = uid

\* C19: the light triggerUp configures is in the store's configuredLights
\* with the position it was given; and when a page loaded later pulls the
\* lights, every stored light whose uniqueid the bridge reports is in
\* configuredLights with the position it was stored with, and no light
\* without a stored entry is put into configuredLights.
C19_PositionsSurvive ==
  [][/\ (\E center \in Points : TriggerUp(center)) =>
          \E i \in DOMAIN idb'.configuredLights :
            /\ idb'.configuredLights[i].uniqueid =
                 app.objs[app.lightToConfigure].uniqueid
            /\ idb'.configuredLights[i].position =
                 app'.objs[app.lightToConfigure].position
     /\ ConnectBridge(TRUE) =>
          /\ \A i \in DOMAIN idb.configuredLights :
               Reported(idb.configuredLights[i].uniqueid) =>
                 \E ref \in ConfRefs(app') :
                   /\ app'.objs[ref].uniqueid = idb.configuredLights[i].uniqueid
                   /\ app'.objs[ref].position = idb.configuredLights[i].position
          /\ \A ref \in (DOMAIN app'.objs) \ (DOMAIN app.objs) :
               ~IsStored(idb, app'.objs[ref].uniqueid) => ref \notin ConfRefs(app')
    ]_vars

\* C20: among the colour commands of one round of configureLight the red
\* one is never sent after the yellow or the green one.
C20_RedFirst ==
  \A i \in DOMAIN app.sent, j \in DOMAIN app.sent :
    (/\ i < j
     /\ app.sent[i].round = app.sent[j].round
     /\ app.sent[i].hue \in {"YELLOW", "GREEN"}) => app.sent[j].hue # "RED"

\* A step in which syncLights runs: every hover event, a timer that fires,
\* and axismove when no timer is pending and SYNC_DELAY has passed.
SyncRuns ==
  \/ \E hand \in Hands, l \in 1..MaxLights : MouseEnter(hand, l)
  \/ \E hand \in Hands : MouseLeave(hand)
  \/ \E id \in TimerIds : SyncTimer(id)
  \/ \E axis \in Axes :
       /\ Axismove(axis)
       /\ Moves(app, axis) /\ app.syncTimeout = 0 /\ app.sinceSync >= SYNC_DELAY

\* C21: at most one sync timer is pending and it is the one syncTimeout
\* holds; queueSyncLights called while a timer is pending only marks the
\* hovered light: it sets no timer and runs no sync; and every run of
\* syncLights leaves no timer pending and syncTimeout null.
C21_OneSyncTimer ==
  [][/\ Cardinality(app'.timers) <= 1
     /\ \A t \in app'.timers : t.id = app'.syncTimeout
     /\ \A axis \in Axes :
          (Axismove(axis) /\ Moves(app, axis) /\ app.timers # {})
            => app' = [app EXCEPT !.objs[app.hoveredLight].state.hue = HueOf(axis),
                                  !.objs[app.hoveredLight].changed = TRUE]
     /\ SyncRuns => (app'.timers = {} /\ app'.syncTimeout = 0)]_vars

\* A timer sync has run, axismove has set a new timer, and a second
\* axismove found that timer pending.
C21_Witness ==
  /\ app.ran.by = "timer"
  /\ \E t \in app.timers : t.id = app.syncTimeout /\ t.left < SYNC_DELAY
  /\ app.hoveredLight # 0
  /\ app.objs[app.hoveredLight].changed
  /\ app.objs[app.hoveredLight].state.hue = 16384

C23_HoverRestores ==
  [][\A hand \in Hands :
       (MouseLeave(hand) /\ ~cursor[hand].moved)
         => LET l == cursor[hand].light
            IN /\ app'.objs[l].state.bri = cursor[hand].bri
               /\ \E r \in app'.ran.sent :
                    r.light = app.objs[l].number /\ r.bri = cursor[hand].bri]_vars

\* The request syncLights sends for a light object as it is.
StateOf(a, l) ==
  [light |-> a.objs[l].number, bri |-> a.objs[l].state.bri,
   hue |-> a.objs[l].state.hue]

\* axismove has changed the hue of a light that has a sphere, and the
\* change has not been sent.
HueChanged(l) == l \in Rendered(app) /\ app.objs[l].changed

\* The light's state as it is has been sent, and its flag is false.
HueSent(l) == ~app.objs[l].changed /\ StateOf(app, l) \in app.ran.sent

\* The light an event marks as changed itself.
Marks(l) ==
  \/ \E hand \in Hands : MouseEnter(hand, l)
  \/ \E hand \in Hands : MouseLeave(hand) /\ cursor[hand].light = l
  \/ \E axis \in Axes : Axismove(axis) /\ Moves(app, axis) /\ app.hoveredLight = l

\* A run of syncLights sends only lights whose changed flag is set.
OnlyChanged ==
  [][SyncRuns => \A r \in app'.ran.sent :
                   \E l \in Rendered(app) :
                     /\ app.objs[l].number = r.light
                     /\ app.objs[l].changed \/ Marks(l)]_vars

\* C25 as stated: when axismove has changed the hue of the hovered light,
\* the light's latest hue is eventually sent and its flag is then false,
\* and a light whose flag is not set is never sent.
C25_Original ==
  /\ \A l \in DOMAIN Calibrated.objs : HueChanged(l) ~> HueSent(l)
  /\ OnlyChanged

\* C25: when axismove has changed the hue of the hovered light, the light's
\* latest hue is eventually sent and its flag is then false, unless the
\* configuration is reset before the sync runs; and a light whose flag is
\* not set is never sent.
C25_ChangedIsSent ==
  /\ \A l \in DOMAIN Calibrated.objs :
       HueChanged(l) ~> (HueSent(l) \/ l \notin Rendered(app))
  /\ OnlyChanged

\* queueSyncLights has run syncLights at once, and the hue that axismove
\* gave the hovered light was sent.
C25_Witness ==
  /\ app.ran.by = "queue"
  /\ app.hoveredLight \in Rendered(app)
  /\ HueSent(app.hoveredLight)
  /\ app.objs[app.hoveredLight].state.hue = 16384

\* C24: configuredLights never holds two entries with the same light
\* number.
C24_NoDuplicates ==
  \A i \in DOMAIN app.configuredLights, j \in DOMAIN app.configuredLights :
    i # j => app.objs[app.configuredLights[i]].number
               # app.objs[app.configuredLights[j]].number

\* C26: when the 5 s timer of a connectBridge call fires before the bridge
\* answers getConfig, connectStatus becomes 'error' and the promise the
\* call returned is rejected; an answer to getConfig that arrives after the
\* timer has fired neither makes connectStatus 'connected' nor pulls the
\* lights; and connectStatus is always one of the four statuses.
C26_TimeoutIsFinal ==
  /\ [](app.connectStatus \in {"disconnected", "connecting", "connected", "error"})
  /\ [][\A c \in 1..MaxConnects :
          /\ ConnectTimer(c)
               => /\ app'.connectStatus = "error"
                  /\ app'.connects[c].promise = "rejected"
          /\ (GetConfigFulfilled(c) /\ app.connects[c].timeout = "fired")
               => /\ app'.connectStatus # "connected"
                  /\ app'.pulls = app.pulls]_vars

\* C27: once no discover call and no connectBridge call is unanswered,
\* connectStatus is not 'connecting': a run of discoverBridge has ended in
\* 'connected', 'disconnected' or 'error'.
C27_DiscoverSettles ==
  (app.discovers = 0 /\ app.connects = <<>>) => app.connectStatus # "connecting"

====
